---- MODULE Spec2Model ----
(***************************************************************************)
(* CSV Contact Manager Agent: the FastAPI service of main.py (session      *)
(* registry, CSV ingestion, review with the two enrollment gateways) and   *)
(* the Telegram driver of telegram_bot.py, as a state machine.             *)
(*                                                                         *)
(* Text is a sequence of one-character strings, so that strip, split,      *)
(* startswith, lower and the e-mail pattern are computed as the code       *)
(* computes them.  A DataFrame cell is NaN or text.                        *)
(***************************************************************************)
EXTENDS Integers, Sequences, FiniteSets, TLC

(***************************************************************************)
(* Bounds of the model.                                                    *)
(***************************************************************************)
\* number of session ids uuid4 can hand out in one run
MaxSessions == 2
\* largest number of data rows in an uploaded file
MaxRows == 6
\* a direct client asks for contact indexes in -MaxIndex..MaxIndex
MaxIndex == 2
\* longest text after the scheme in a LinkedIn cell given to
\* clean_linkedin_url on its own
MaxUrlLen == 3

(***************************************************************************)
(* Program constants.                                                      *)
(***************************************************************************)
\* contacts[:5], the preview of upload_csv
PreviewSize == 5

(***************************************************************************)
(* Text.                                                                   *)
(***************************************************************************)
LowerLetters ==
  {"a", "b", "c", "d", "e", "f", "g", "h", "i", "j", "k", "l", "m",
   "n", "o", "p", "q", "r", "s", "t", "u", "v", "w", "x", "y", "z"}

UpperLetters ==
  {"A", "B", "C", "D", "E", "F", "G", "H", "I", "J", "K", "L", "M",
   "N", "O", "P", "Q", "R", "S", "T", "U", "V", "W", "X", "Y", "Z"}

Digits == {"0", "1", "2", "3", "4", "5", "6", "7", "8", "9"}

Letters == LowerLetters \cup UpperLetters

\* A text of the model is made of the characters of Latin-1 (codes 1 to
\* 255).  Those of them str.strip() removes and str.split() splits at:
\* tab, line feed, vertical tab, form feed, carriage return, the separators
\* 28 to 31, the blank, next line (133) and the no-break space (160)
Whitespace == {"\t", "\n", "", "\f", "\r", "", "", "", "", " ", "", " "}

UpperSeq ==
  <<"A", "B", "C", "D", "E", "F", "G", "H", "I", "J", "K", "L", "M",
    "N", "O", "P", "Q", "R", "S", "T", "U", "V", "W", "X", "Y", "Z">>

LowerSeq ==
  <<"a", "b", "c", "d", "e", "f", "g", "h", "i", "j", "k", "l", "m",
    "n", "o", "p", "q", "r", "s", "t", "u", "v", "w", "x", "y", "z">>

\* the capital letters of Latin-1 past Z
UpperLatin1 ==
  <<"À", "Á", "Â", "Ã", "Ä", "Å", "Æ", "Ç", "È", "É", "Ê", "Ë", "Ì",
    "Í", "Î", "Ï", "Ð", "Ñ", "Ò", "Ó", "Ô", "Õ", "Ö", "Ø", "Ù", "Ú",
    "Û", "Ü", "Ý", "Þ">>

LowerLatin1 ==
  <<"à", "á", "â", "ã", "ä", "å", "æ", "ç", "è", "é", "ê", "ë", "ì",
    "í", "î", "ï", "ð", "ñ", "ò", "ó", "ô", "õ", "ö", "ø", "ù", "ú",
    "û", "ü", "ý", "þ">>

\* str.lower() of one character: A to Z and the capital letters of Latin-1
LowerChar(c) ==
  IF c \in UpperLetters
    THEN LowerSeq[CHOOSE i \in 1..26 : UpperSeq[i] = c]
  ELSE IF \E i \in 1..Len(UpperLatin1) : UpperLatin1[i] = c
    THEN LowerLatin1[CHOOSE i \in 1..Len(UpperLatin1) : UpperLatin1[i] = c]
  ELSE c

\* str.lower()
Lower(s) == [i \in 1..Len(s) |-> LowerChar(s[i])]

\* str.strip()
Strip(s) ==
  LET keep == {i \in 1..Len(s) : s[i] \notin Whitespace} IN
  IF keep = {} THEN <<>>
  ELSE LET lo == CHOOSE i \in keep : \A j \in keep : i <= j
           hi == CHOOSE i \in keep : \A j \in keep : j <= i
       IN SubSeq(s, lo, hi)

\* sub in s
Contains(s, sub) ==
  \E i \in 1..(Len(s) - Len(sub) + 1) : SubSeq(s, i, i + Len(sub) - 1) = sub

\* s.startswith(pre)
StartsWith(s, pre) ==
  /\ Len(s) >= Len(pre)
  /\ SubSeq(s, 1, Len(pre)) = pre

\* s.split(c)[0]
BeforeFirst(s, c) ==
  LET at == {i \in 1..Len(s) : s[i] = c} IN
  IF at = {} THEN s
  ELSE SubSeq(s, 1, (CHOOSE i \in at : \A j \in at : i <= j) - 1)

(***************************************************************************)
(* DataFrame cells.  pandas reads an empty field as NaN.                   *)
(***************************************************************************)
NaN == [nan |-> TRUE, s |-> <<>>]

Txt(s) == [nan |-> FALSE, s |-> s]

\* pd.isna(cell)
IsNa(cell) == cell.nan

\* str(cell): str(float('nan')) is 'nan'
Str(cell) == IF cell.nan THEN <<"n", "a", "n">> ELSE cell.s

\* row.get(col, ''): the cell, or the default '' when the column is absent
RowGet(row, col) == IF col \in DOMAIN row THEN row[col] ELSE Txt(<<>>)

\* Optional[str]: <<>> is None, <<s>> is the string s
None == <<>>

Some(s) == <<s>>

(***************************************************************************)
(* Validator (main.py 57-84).                                              *)
(***************************************************************************)
EmailLocalChars == Letters \cup Digits \cup {".", "_", "%", "+", "-"}

EmailDomainChars == Letters \cup Digits \cup {".", "-"}

\* re.match(r'^[a-zA-Z0-9._%+-]+@[a-zA-Z0-9.-]+\.[a-zA-Z]{2,}$', email).
\* '$' matches at the end of the text and also just before a newline that
\* ends it.
validate_email(email) ==
  LET end == IF email # <<>> /\ email[Len(email)] = "\n"
               THEN Len(email) - 1
               ELSE Len(email)
  IN \E at \in 2..end : \E dot \in (at + 2)..(end - 2) :
       /\ email[at] = "@"
       /\ email[dot] = "."
       /\ \A i \in 1..(at - 1) : email[i] \in EmailLocalChars
       /\ \A i \in (at + 1)..(dot - 1) : email[i] \in EmailDomainChars
       /\ \A i \in (dot + 1)..end : email[i] \in Letters

\* validate_linkedin_url applied to text (parse_csv passes the cleaned url)
validate_linkedin_url(url) ==
  IF url = <<>> THEN FALSE
  ELSE Contains(Lower(Strip(url)),
                <<"l", "i", "n", "k", "e", "d", "i", "n", ".", "c", "o", "m">>)

\* clean_linkedin_url applied to a cell
clean_linkedin_url(cell) ==
  IF IsNa(cell) \/ cell.s = <<>> THEN <<>>
  ELSE LET stripped == Strip(cell.s)
           noquery == IF "?" \in {stripped[i] : i \in 1..Len(stripped)}
                        THEN BeforeFirst(stripped, "?")
                        ELSE stripped
       IN IF StartsWith(noquery, <<"h", "t", "t", "p">>)
            THEN noquery
            ELSE <<"h", "t", "t", "p", "s", ":", "/", "/">> \o noquery

(***************************************************************************)
(* parse_csv (main.py 86-127) on a parsed DataFrame: the rows in order,    *)
(* each a function from the file's column names to cells.                  *)
(***************************************************************************)
LinkedInColumn == "What is your LinkedIn profile?"

\* lines 111-112: '' when the cell is absent or NaN, else the stripped text
OptionalName(row, col) ==
  IF col \in DOMAIN row /\ ~IsNa(row[col]) THEN Strip(Str(row[col])) ELSE <<>>

\* lines 94-108: the row passes every check
RowAccepted(row) ==
  LET name == Strip(Str(RowGet(row, "name")))
      email == Strip(Str(RowGet(row, "email")))
      linkedin_url == clean_linkedin_url(RowGet(row, LinkedInColumn))
  IN /\ name # <<>>
     /\ email # <<>>
     /\ linkedin_url # <<>>
     /\ validate_email(email)
     /\ validate_linkedin_url(linkedin_url)

\* lines 114-120: the Contact built from an accepted row
RowContact(row) ==
  LET first_name == OptionalName(row, "first_name")
      last_name == OptionalName(row, "last_name")
  IN [name |-> Strip(Str(RowGet(row, "name"))),
      email |-> Strip(Str(RowGet(row, "email"))),
      linkedin_url |-> clean_linkedin_url(RowGet(row, LinkedInColumn)),
      first_name |-> IF first_name # <<>> THEN Some(first_name) ELSE None,
      last_name |-> IF last_name # <<>> THEN Some(last_name) ELSE None]

RECURSIVE parse_rows(_)
\* lines 92-121: the loop over df.iterrows()
parse_rows(rows) ==
  IF rows = <<>> THEN <<>>
  ELSE IF RowAccepted(Head(rows))
         THEN <<RowContact(Head(rows))>> \o parse_rows(Tail(rows))
         ELSE parse_rows(Tail(rows))

(***************************************************************************)
(* Uploaded files.  A file has a name with a suffix, is readable by        *)
(* pd.read_csv or makes it raise, and holds data rows.                     *)
(***************************************************************************)
Columns == {"name", "email", LinkedInColumn, "first_name", "last_name"}

RowAnn ==
  [c \in Columns |->
     CASE c = "name" -> Txt(<<"A", "n", "n", " ", "L", "e", "e">>)
       [] c = "email" -> Txt(<<"a", "n", "n", "@", "x", ".", "c", "o", "m">>)
       [] c = LinkedInColumn ->
            Txt(<<"l", "i", "n", "k", "e", "d", "i", "n", ".", "c", "o", "m",
                  "/", "i", "n", "/", "a", "n", "n", "?", "t", "r", "k", "=",
                  "1">>)
       [] OTHER -> NaN]

RowBob ==
  [c \in Columns |->
     CASE c = "name" -> Txt(<<" ", "B", "o", "b", " ">>)
       [] c = "email" -> Txt(<<"b", "@", "y", ".", "i", "o">>)
       [] c = LinkedInColumn ->
            Txt(<<" ", "h", "t", "t", "p", ":", "/", "/", "L", "i", "n", "k",
                  "e", "d", "I", "n", ".", "c", "o", "m", "/", "b", " ">>)
       [] c = "first_name" -> Txt(<<"B", "o", "b">>)
       [] OTHER -> Txt(<<"R", "a", "y">>)]

\* the second row of the spec's end-to-end scenario 1
RowBad ==
  [c \in Columns |->
     CASE c = "email" -> Txt(<<"b", "a", "d">>)
       [] OTHER -> NaN]

RowCy ==
  [c \in Columns |->
     CASE c = "name" -> Txt(<<"C", "y">>)
       [] c = "email" -> Txt(<<"c", "y", "@", "z", ".", "i", "o">>)
       [] c = LinkedInColumn ->
            Txt(<<"e", "x", "a", "m", "p", "l", "e", ".", "c", "o", "m", "/",
                  "c", "y">>)
       [] OTHER -> NaN]

\* rows that all pass, rows of which some pass, rows that all fail
RowPools == [valid |-> <<RowAnn, RowBob>>,
             mixed |-> <<RowAnn, RowBad, RowBob, RowCy>>,
             reject |-> <<RowBad, RowCy>>]

\* n rows taken from a pool in turn
Cycle(pool, n) == [i \in 1..n |-> pool[((i - 1) % Len(pool)) + 1]]

\* the data rows of the uploaded files: a header alone, one valid row, the
\* spec's scenario 1 (a valid row and a bad one), rows that all fail, and
\* MaxRows valid rows
FileRows ==
  {<<>>, Cycle(RowPools.valid, 1), Cycle(RowPools.mixed, 2),
   Cycle(RowPools.reject, 2), Cycle(RowPools.valid, MaxRows)}

\* spooled: the upload is over the size Starlette keeps in memory, so that
\* "await file.read()" (line 208) reads it in a thread and suspends
Files ==
  {[suffix |-> ".csv", readable |-> TRUE, spooled |-> FALSE, rows |-> rows] :
     rows \in FileRows}
  \cup {[suffix |-> ".txt", readable |-> TRUE, spooled |-> FALSE,
         rows |-> <<RowAnn>>],
        [suffix |-> ".CSV", readable |-> TRUE, spooled |-> FALSE,
         rows |-> <<RowAnn>>],
        [suffix |-> ".csv", readable |-> FALSE, spooled |-> FALSE,
         rows |-> <<>>],
        [suffix |-> ".csv", readable |-> TRUE, spooled |-> TRUE,
         rows |-> <<RowAnn>>]}

\* parse_rows of the model's files, computed once
ParseTable == [file \in Files |-> parse_rows(file.rows)]

\* parse_csv of a file pd.read_csv can read
parse_csv(file) ==
  IF file \in DOMAIN ParseTable THEN ParseTable[file] ELSE parse_rows(file.rows)

(***************************************************************************)
(* State.                                                                  *)
(***************************************************************************)
VARIABLES
  env,             \* the configured credentials (main.py 25-30)
  active_reviews,  \* session id -> list of Contact (main.py 47)
  inflight,        \* the review_contact call the event loop is running
  response,        \* the answer to the direct client's last request, if any
  user_sessions,   \* telegram_bot.py 24: user id -> session dict
  callback,        \* the handler the bot is running and its locals
  screen,          \* the inline keyboards sent: <<user, session id, index>>
  dispatched,      \* the <<session id, index>> the bot posted a review for
  uploading,       \* the uploads suspended in file.read() (main.py 208)
  temp_files,      \* the uploads of which a temp file is on the API's disk
  arg,             \* the function applied on its own and its argument
  ret              \* the values it has returned so far

vars == <<env, active_reviews, inflight, response, user_sessions, callback,
          screen, dispatched, uploading, temp_files, arg, ret>>

botvars == <<user_sessions, callback, screen, dispatched>>

\* the state of the service and of the driver
svcvars == <<env, active_reviews, inflight, response, user_sessions, callback,
             screen, dispatched, uploading, temp_files>>

SessionIds == 1..MaxSessions

\* the empty string as a session id
EmptyId == 0

Targets == {"mailchimp", "pipedrive"}

EnvVars == {"MAILCHIMP_API_KEY", "MAILCHIMP_LIST_ID", "MAILCHIMP_SERVER_PREFIX",
            "PIPEDRIVE_API_KEY", "PIPEDRIVE_DOMAIN"}

\* all([MAILCHIMP_API_KEY, MAILCHIMP_LIST_ID, MAILCHIMP_SERVER_PREFIX])
MailchimpConfigured(e) ==
  {"MAILCHIMP_API_KEY", "MAILCHIMP_LIST_ID", "MAILCHIMP_SERVER_PREFIX"}
    \subseteq e

\* all([PIPEDRIVE_API_KEY, PIPEDRIVE_DOMAIN])
PipedriveConfigured(e) == {"PIPEDRIVE_API_KEY", "PIPEDRIVE_DOMAIN"} \subseteq e

\* the environments of the model: nothing set, everything set, and one
\* credential of a target missing
EnvConfigs ==
  {{}, EnvVars} \cup {EnvVars \ {v} : v \in {"MAILCHIMP_LIST_ID", "PIPEDRIVE_DOMAIN"}}

\* results = {}
NoResults == [mailchimp |-> None, pipedrive |-> None]

IdleReview ==
  [pc |-> "idle", caller |-> "none", session_id |-> EmptyId,
   contact_index |-> 0, add_to_mailchimp |-> FALSE,
   add_to_pipedrive |-> FALSE, results |-> NoResults, invoked |-> {},
   posted |-> {}, silent |-> FALSE]

NoResponse ==
  [op |-> "none", status |-> 0, detail |-> "", session_id |-> EmptyId,
   contact_index |-> 0, total_contacts |-> 0, contacts |-> <<>>, results |-> NoResults,
   invoked |-> {}, posted |-> {}]

NoCallback ==
  [pc |-> "idle", user |-> "none", action |-> "none", contact_index |-> 0,
   results |-> NoResults]

EmptyRegistry == [s \in {} |-> <<>>]

\* no function is applied on its own
NoArg == [fn |-> "none", val |-> <<>>]

Init ==
  /\ env \in EnvConfigs
  /\ active_reviews = EmptyRegistry
  /\ inflight = IdleReview
  /\ response = NoResponse
  /\ user_sessions = [u \in {} |-> 0]
  /\ callback = NoCallback
  /\ screen = {}
  /\ dispatched = {}
  /\ uploading = <<>>
  /\ temp_files = {}
  /\ arg = NoArg
  /\ ret = <<>>

(***************************************************************************)
(* Ingestion and lookup (main.py 199-234, 266-277).                        *)
(***************************************************************************)
\* str(uuid.uuid4()): an id no session has.  Ids are opaque, so the model
\* hands out the least unused one; when its ids are used up no further
\* session is created.
uuid4(reg) ==
  LET unused == SessionIds \ DOMAIN reg IN
  IF unused = {} THEN {EmptyId}
  ELSE {CHOOSE sid \in unused : \A other \in unused : sid <= other}

\* the ids uuid4 can still hand out when each of the suspended uploads, all
\* of which will store a session, is to get one
IdsLeft(reg, suspended) ==
  MaxSessions - Cardinality(DOMAIN reg) - Len(suspended)

\* contacts[:n]
Prefix(seq, n) == SubSeq(seq, 1, IF Len(seq) < n THEN Len(seq) ELSE n)

\* Store with the registry rebuilt around the new session
Store_Replacing(reg, sid, contacts) == [s \in {sid} |-> contacts]

\* active_reviews[session_id] = contacts
Store(reg, sid, contacts) ==
  [s \in DOMAIN reg \cup {sid} |-> IF s = sid THEN contacts ELSE reg[s]]

UploadFailure(status, detail, reg) ==
  [status |-> status, detail |-> detail, registry |-> reg,
   session_id |-> EmptyId, total_contacts |-> 0, contacts |-> <<>>]

\* upload_csv without the check of line 218
upload_csv_NoEmptyCheck(file, sid, reg) ==
  IF file.suffix # ".csv"
    THEN UploadFailure(400, "File must be a CSV", reg)
  ELSE IF ~file.readable
    THEN UploadFailure(500, "Error parsing CSV", reg)
  ELSE LET contacts == parse_csv(file) IN
       [status |-> 200, detail |-> "", registry |-> Store(reg, sid, contacts),
        session_id |-> sid, total_contacts |-> Len(contacts),
        contacts |-> Prefix(contacts, PreviewSize)]

\* upload_csv storing contacts[:5], the list it returns, at line 224
upload_csv_StoresPreview(file, sid, reg) ==
  IF file.suffix # ".csv"
    THEN UploadFailure(400, "File must be a CSV", reg)
  ELSE IF ~file.readable
    THEN UploadFailure(500, "Error parsing CSV", reg)
  ELSE LET contacts == parse_csv(file) IN
    IF contacts = <<>>
      THEN UploadFailure(500, "No valid contacts found in CSV", reg)
      ELSE [status |-> 200, detail |-> "",
            registry |-> Store(reg, sid, Prefix(contacts, PreviewSize)),
            session_id |-> sid, total_contacts |-> Len(contacts),
            contacts |-> Prefix(contacts, PreviewSize)]

\* upload_csv: the answer and the registry it leaves.  The HTTPException
\* raised inside the try block (by parse_csv, line 127, or for an empty
\* list, line 219) is caught at line 232 and raised again with status 500.
upload_csv(file, sid, reg) ==
  IF file.suffix # ".csv"
    THEN UploadFailure(400, "File must be a CSV", reg)
  ELSE IF ~file.readable
    THEN UploadFailure(500, "Error parsing CSV", reg)
  ELSE LET contacts == parse_csv(file) IN
    IF contacts = <<>>
      THEN UploadFailure(500, "No valid contacts found in CSV", reg)
      ELSE [status |-> 200, detail |-> "", registry |-> Store(reg, sid, contacts),
            session_id |-> sid, total_contacts |-> Len(contacts),
            contacts |-> Prefix(contacts, PreviewSize)]

\* seq without its i-th element
Without(seq, i) == SubSeq(seq, 1, i - 1) \o SubSeq(seq, i + 1, Len(seq))

\* upload_csv 202-216: the uploads with a temp file on disk when the
\* request ends, suspended being the other uploads waiting in file.read(),
\* each with a temp file of its own.  No temp file is made for a name
\* without .csv; the file made at 207 is removed at 216, which a parse_csv
\* that raises skips.
temp_after(file, disk, suspended) ==
  IF file.suffix # ".csv" THEN disk
  ELSE IF ~file.readable THEN disk \cup {file}
  ELSE IF \E i \in 1..Len(suspended) : suspended[i] = file THEN disk
  ELSE disk \ {file}

\* get_contacts
get_contacts(sid, reg) ==
  IF sid \notin DOMAIN reg
    THEN [status |-> 404, detail |-> "Review session not found",
          session_id |-> EmptyId, total_contacts |-> 0, contacts |-> <<>>]
    ELSE [status |-> 200, detail |-> "", session_id |-> sid,
          total_contacts |-> Len(reg[sid]), contacts |-> reg[sid]]

(***************************************************************************)
(* Enrollment gateways (main.py 129-197).  A remote service answers with   *)
(* an HTTP status and a body that holds data.id or not, or the call        *)
(* raises.                                                                 *)
(***************************************************************************)
RemoteAnswers ==
  {[fault |-> FALSE, status |-> st, has_id |-> b] :
     st \in {200, 201, 400}, b \in BOOLEAN}
  \cup {[fault |-> TRUE, status |-> 0, has_id |-> FALSE]}

\* lines 153-164
mailchimp_outcome(ans) == ~ans.fault /\ ans.status \in {200, 201}

\* lines 185-197: response.json()["data"]["id"] raises on a body without it
pipedrive_outcome(ans) == ~ans.fault /\ ans.status = 201 /\ ans.has_id

RECURSIVE Tokens(_)
\* s.split(): the runs of characters between whitespace
Tokens(s) ==
  LET inked == {i \in 1..Len(s) : s[i] \notin Whitespace} IN
  IF inked = {} THEN <<>>
  ELSE LET start == CHOOSE i \in inked : \A j \in inked : i <= j
           gaps == {i \in start..Len(s) : s[i] \in Whitespace}
           stop == IF gaps = {} THEN Len(s) + 1
                   ELSE CHOOSE i \in gaps : \A j \in gaps : i <= j
       IN <<SubSeq(s, start, stop - 1)>> \o Tokens(SubSeq(s, stop, Len(s)))

RECURSIVE JoinSpace(_)
\* " ".join(tokens)
JoinSpace(tokens) ==
  IF tokens = <<>> THEN <<>>
  ELSE IF Len(tokens) = 1 THEN tokens[1]
  ELSE tokens[1] \o <<" ">> \o JoinSpace(Tail(tokens))

\* the truth value of an Optional[str]
Truthy(opt) == opt # None /\ opt[1] # <<>>

\* lines 141-145, the merge_fields add_to_mailchimp posts.  In line 143 the
\* conditional expression takes the whole "or" as its first operand:
\* (last_name or " ".join(...)) if len(name.split()) > 1 else "".
merge_fields(contact) ==
  LET parts == Tokens(contact.name) IN
  [FNAME |-> IF Truthy(contact.first_name) THEN contact.first_name[1]
                                           ELSE parts[1],
   LNAME |-> IF Len(parts) > 1
               THEN IF Truthy(contact.last_name) THEN contact.last_name[1]
                    ELSE JoinSpace(Tail(parts))
               ELSE <<>>,
   LINKEDIN |-> contact.linkedin_url]

\* the outcomes the registry records for a session: active_reviews maps a
\* session id to its list of Contact and review_contact stores nothing, so
\* no (index, target) has an entry
dispatch_log(reg, sid) == [k \in {} |-> FALSE]

\* seq[i] of Python for -len <= i < len
PyIndex(seq, i) == IF i >= 0 THEN seq[i + 1] ELSE seq[Len(seq) + i + 1]

Posting == {"mailchimp_post", "pipedrive_post"}

\* PipedriveStage run only when the mailchimp part has not failed
PipedriveStage_UnlessMailchimpFailed(rv, e) ==
  IF ~rv.add_to_pipedrive \/ rv.results.mailchimp = Some(FALSE)
    THEN [rv EXCEPT !.pc = "return"]
  ELSE IF PipedriveConfigured(e)
    THEN [rv EXCEPT !.pc = "pipedrive_post",
                    !.invoked = @ \cup {"pipedrive"},
                    !.posted = @ \cup {"pipedrive"}]
    ELSE [rv EXCEPT !.pc = "return",
                    !.invoked = @ \cup {"pipedrive"},
                    !.results.pipedrive = Some(FALSE)]

\* lines 256-264: the pipedrive part of review_contact, run up to the
\* blocking requests.post or to the return
PipedriveStage(rv, e) ==
  IF ~rv.add_to_pipedrive THEN [rv EXCEPT !.pc = "return"]
  ELSE IF PipedriveConfigured(e)
    THEN [rv EXCEPT !.pc = "pipedrive_post",
                    !.invoked = @ \cup {"pipedrive"},
                    !.posted = @ \cup {"pipedrive"}]
    ELSE [rv EXCEPT !.pc = "return",
                    !.invoked = @ \cup {"pipedrive"},
                    !.results.pipedrive = Some(FALSE)]

\* MailchimpStage without the credential check of line 131
MailchimpStage_NoCredentialCheck(rv, e) ==
  IF ~rv.add_to_mailchimp THEN PipedriveStage(rv, e)
  ELSE [rv EXCEPT !.pc = "mailchimp_post",
                  !.invoked = @ \cup {"mailchimp"},
                  !.posted = @ \cup {"mailchimp"}]

\* lines 252-254, then the rest of the handler
MailchimpStage(rv, e) ==
  IF ~rv.add_to_mailchimp THEN PipedriveStage(rv, e)
  ELSE IF MailchimpConfigured(e)
    THEN [rv EXCEPT !.pc = "mailchimp_post",
                    !.invoked = @ \cup {"mailchimp"},
                    !.posted = @ \cup {"mailchimp"}]
    ELSE PipedriveStage([rv EXCEPT !.invoked = @ \cup {"mailchimp"},
                                   !.results.mailchimp = Some(FALSE)], e)

\* review_check with line 241 testing only "not session_id": the lookup of
\* line 244 raises KeyError for an unknown id
review_check_NoMembershipTest(sid, idx, reg) ==
  IF sid = EmptyId
    THEN [status |-> 404, detail |-> "Review session not found"]
  ELSE IF sid \notin DOMAIN reg
    THEN [status |-> 500, detail |-> "KeyError"]
  ELSE IF idx >= Len(reg[sid])
    THEN [status |-> 400, detail |-> "Invalid contact index"]
  ELSE IF idx < -Len(reg[sid])
    THEN [status |-> 500, detail |-> "IndexError"]
  ELSE [status |-> 200, detail |-> ""]

\* lines 239-249: the status review_contact answers before any dispatch,
\* 200 when it goes on.  contacts[i] raises IndexError for i < -len, which
\* no handler catches.
review_check(sid, idx, reg) ==
  IF sid = EmptyId \/ sid \notin DOMAIN reg
    THEN [status |-> 404, detail |-> "Review session not found"]
  ELSE IF idx >= Len(reg[sid])
    THEN [status |-> 400, detail |-> "Invalid contact index"]
  ELSE IF idx < -Len(reg[sid])
    THEN [status |-> 500, detail |-> "IndexError"]
  ELSE [status |-> 200, detail |-> ""]

(***************************************************************************)
(* The Telegram driver (telegram_bot.py).  The library runs one handler    *)
(* at a time; a handler waits at each call of the API.                     *)
(***************************************************************************)
Users == {"u1"}

Actions == {"mailchimp", "pipedrive", "both", "skip"}

BotPosting == {"post_mailchimp", "post_pipedrive"}

\* del user_sessions[user_id]
Forget(sessions, u) == [v \in DOMAIN sessions \ {u} |-> sessions[v]]

\* result['results'].get(service, False)
ResultsGet(results, service) ==
  IF results[service] = None THEN FALSE ELSE results[service][1]

\* a request to Telegram (answer, edit_message_text, reply_text,
\* send_message) is done, or it raises: a network error, a timeout, or a
\* text Telegram cannot parse as Markdown
TelegramOutcomes == {"done", "raises"}

\* handle_callback 217-246.  session['contacts'] is the preview the upload
\* returned, so line 218 (and 229) raises IndexError for an index past it
\* and the handler ends there.  Nothing catches what edit_message_text
\* raises at 231, before the index is advanced at 234, nor what
\* send_message raises at 241, before the del of 246.
FinishCallback(cb) ==
  LET u == cb.user
      session == user_sessions[u]
  IN /\ screen' = screen
     /\ dispatched' = dispatched
     /\ \E edit \in TelegramOutcomes, send \in TelegramOutcomes :
          IF cb.contact_index >= Len(session.contacts) \/ edit = "raises"
            THEN /\ callback' = NoCallback
                 /\ user_sessions' = user_sessions
          ELSE IF session.current_index + 1 < session.total_contacts
            THEN /\ user_sessions' =
                      [user_sessions EXCEPT ![u].current_index = @ + 1]
                 /\ callback' = [NoCallback EXCEPT !.pc = "show_next",
                                                   !.user = u]
          ELSE IF send = "raises"
            THEN /\ user_sessions' =
                      [user_sessions EXCEPT ![u].current_index = @ + 1]
                 /\ callback' = NoCallback
          ELSE /\ user_sessions' = Forget(user_sessions, u)
               /\ callback' = NoCallback

\* add_contact_to_service 265-270 with the answer of the API, then the
\* rest of handle_callback
BotReviewAnswered(status, results) ==
  LET service == IF callback.pc = "post_mailchimp" THEN "mailchimp"
                                                   ELSE "pipedrive"
      result == IF status = 200 THEN ResultsGet(results, service) ELSE FALSE
      cb == [callback EXCEPT !.results[service] = Some(result)]
  IN IF callback.pc = "post_mailchimp" /\ callback.action = "both"
       THEN /\ callback' = [cb EXCEPT !.pc = "post_pipedrive"]
            /\ UNCHANGED <<user_sessions, screen, dispatched>>
       ELSE FinishCallback(cb)

(***************************************************************************)
(* review_contact (main.py 236-264).  requests.post is a blocking call     *)
(* inside a coroutine: from the post to the answer the handler keeps the   *)
(* event loop of the single uvicorn process, and requests.post is given    *)
(* no timeout.                                                             *)
(***************************************************************************)
\* the answer of review_contact, sent to its caller
ReviewAnswer(rv, status, detail) ==
  /\ inflight' = IdleReview
  /\ IF rv.caller = "api"
       THEN /\ response' =
                 [op |-> "review", status |-> status, detail |-> detail,
                  session_id |-> rv.session_id,
                  contact_index |-> rv.contact_index, total_contacts |-> 0,
                  contacts |-> IF status = 200
                                 THEN <<PyIndex(active_reviews[rv.session_id],
                                                rv.contact_index)>>
                                 ELSE <<>>,
                  results |-> rv.results, invoked |-> rv.invoked,
                  posted |-> rv.posted]
            /\ UNCHANGED botvars
       ELSE /\ response' = response
            /\ BotReviewAnswered(status, rv.results)

\* the handler goes on until it returns or blocks in requests.post
RunReview(rv) ==
  IF rv.pc = "return"
    THEN ReviewAnswer(rv, 200, "")
    ELSE /\ inflight' = rv
         /\ response' = IF rv.caller = "api" THEN NoResponse ELSE response
         /\ UNCHANGED botvars

review_contact(caller, sid, idx, mc, pd) ==
  /\ inflight.pc = "idle"
  /\ LET chk == review_check(sid, idx, active_reviews)
         rv == [IdleReview EXCEPT !.caller = caller, !.session_id = sid,
                                  !.contact_index = idx,
                                  !.add_to_mailchimp = mc,
                                  !.add_to_pipedrive = pd]
     IN IF chk.status # 200
          THEN ReviewAnswer(rv, chk.status, chk.detail)
          ELSE RunReview(MailchimpStage(rv, env))
  /\ UNCHANGED <<env, arg, ret, uploading, temp_files, active_reviews>>

\* the remote service answers the pending requests.post
RemoteResponds(ans) ==
  /\ inflight.pc \in Posting
  /\ ~inflight.silent
  /\ IF inflight.pc = "mailchimp_post"
       THEN RunReview(PipedriveStage(
              [inflight EXCEPT !.results.mailchimp =
                                  Some(mailchimp_outcome(ans))], env))
       ELSE RunReview([inflight EXCEPT !.results.pipedrive =
                                          Some(pipedrive_outcome(ans)),
                                       !.pc = "return"])
  /\ UNCHANGED <<env, arg, ret, uploading, temp_files, active_reviews>>

\* the remote service stops answering: nothing ends the requests.post
RemoteGoesSilent ==
  /\ inflight.pc \in Posting
  /\ ~inflight.silent
  /\ inflight' = [inflight EXCEPT !.silent = TRUE]
  /\ UNCHANGED <<env, arg, ret, uploading, temp_files, active_reviews, response, botvars>>

(***************************************************************************)
(* Requests of a direct client of the API.                                 *)
(***************************************************************************)
ReviewIndexes == (-MaxIndex)..MaxIndex

RequestIds == SessionIds \cup {EmptyId}

\* upload_csv from line 208 on: the upload is read, parsed and answered;
\* suspended are the uploads that stay in file.read()
UploadCompletes(file, suspended) ==
  /\ \E sid \in uuid4(active_reviews) :
       LET r == upload_csv(file, sid, active_reviews) IN
       /\ r.status = 200 => IdsLeft(active_reviews, suspended) > 0
       /\ active_reviews' = r.registry
       /\ response' = [op |-> "upload", status |-> r.status,
                       detail |-> r.detail, session_id |-> r.session_id,
                       contact_index |-> 0, total_contacts |-> r.total_contacts,
                       contacts |-> r.contacts, results |-> NoResults,
                       invoked |-> {}, posted |-> {}]
  /\ temp_files' = temp_after(file, temp_files, suspended)
  /\ uploading' = suspended

\* the upload waits at "await file.read()" with its temp file made
Suspends(file) == file.suffix = ".csv" /\ file.spooled

\* POST /upload-csv: up to the answer, or up to line 208 when the read
\* suspends and leaves the event loop to other requests.  Any number of
\* uploads can wait there, the same file more than once.
UploadCsv(file) ==
  /\ inflight.pc = "idle"
  /\ IF Suspends(file)
       THEN /\ IdsLeft(active_reviews, uploading) > 0
            /\ uploading' = Append(uploading, file)
            /\ temp_files' = temp_files \cup {file}
            /\ response' = NoResponse
            /\ active_reviews' = active_reviews
       ELSE UploadCompletes(file, uploading)
  /\ UNCHANGED <<env, arg, ret, inflight, botvars>>

\* the read of a suspended upload is done: upload_csv goes on from line 209
UploadResumes(i) ==
  /\ inflight.pc = "idle"
  /\ i \in 1..Len(uploading)
  /\ UploadCompletes(uploading[i], Without(uploading, i))
  /\ UNCHANGED <<env, arg, ret, inflight, botvars>>

\* POST /upload-csv of file is answered in this step
UploadAnswered(file) ==
  \/ ~Suspends(file) /\ UploadCsv(file)
  \/ \E i \in 1..Len(uploading) : uploading[i] = file /\ UploadResumes(i)

\* GET /contacts/{session_id}
GetContacts(sid) ==
  /\ inflight.pc = "idle"
  /\ LET r == get_contacts(sid, active_reviews) IN
     response' = [op |-> "get", status |-> r.status, detail |-> r.detail,
                  session_id |-> r.session_id, contact_index |-> 0,
                  total_contacts |-> r.total_contacts,
                  contacts |-> r.contacts, results |-> NoResults,
                  invoked |-> {}, posted |-> {}]
  /\ UNCHANGED <<env, arg, ret, uploading, temp_files, active_reviews, inflight, botvars>>

\* POST /review-contact
ReviewContact(sid, idx, mc, pd) == review_contact("api", sid, idx, mc, pd)

(***************************************************************************)
(* Handlers of the Telegram driver.                                        *)
(***************************************************************************)
\* handle_document 83-136.  The driver is the API's only client here and
\* waits for the answer of its upload, so that nothing runs between the
\* lines of upload_csv.  When the reply_text of line 92 raises, or the
\* get_file of line 96 (caught at 134), the handler ends before the upload
\* with nothing done.
HandleDocument(u, file) ==
  /\ callback.pc = "idle"
  /\ inflight.pc = "idle"
  /\ \E fetch \in TelegramOutcomes :
     IF file.suffix \notin {".csv", ".CSV"} \/ fetch = "raises"
       THEN UNCHANGED <<active_reviews, user_sessions, callback, temp_files>>
       ELSE \E sid \in uuid4(active_reviews) :
              LET r == upload_csv(file, sid, active_reviews) IN
              /\ r.status = 200 => sid # EmptyId
              /\ active_reviews' = r.registry
              /\ temp_files' = temp_after(file, temp_files, uploading)
              /\ IF r.status = 200
                   THEN /\ user_sessions' =
                             [v \in DOMAIN user_sessions \cup {u} |->
                                IF v = u
                                  THEN [session_id |-> r.session_id,
                                        contacts |-> r.contacts,
                                        total_contacts |-> r.total_contacts,
                                        current_index |-> 0]
                                  ELSE user_sessions[v]]
                        /\ callback' = [NoCallback EXCEPT !.pc = "show",
                                                          !.user = u]
                   ELSE UNCHANGED <<user_sessions, callback>>
  /\ UNCHANGED <<env, arg, ret, uploading, inflight, response, screen,
               dispatched>>

\* show_contact_for_review 138-185, called by handle_document (pc "show")
\* or by handle_callback (pc "show_next").  The update of a button press
\* has no message: update.message is None there, and the reply_text of
\* lines 141, 148, 159 and 185 raises AttributeError, which ends the
\* handler with no keyboard sent and, at 148, before the del of 149.  With
\* a message, the reply_text can raise as any request to Telegram.
ShowContactForReview ==
  /\ callback.pc \in {"show", "show_next"}
  /\ inflight.pc = "idle"
  /\ \E reply \in TelegramOutcomes :
     LET u == callback.user
         replied == callback.pc = "show" /\ reply = "done"
     IN IF u \notin DOMAIN user_sessions
          THEN UNCHANGED <<user_sessions, screen>>
        ELSE LET session == user_sessions[u] IN
          IF session.current_index >= session.total_contacts
            THEN /\ user_sessions' = IF replied
                                       THEN Forget(user_sessions, u)
                                       ELSE user_sessions
                 /\ screen' = screen
            ELSE LET r == get_contacts(session.session_id, active_reviews) IN
                 /\ user_sessions' = user_sessions
                 /\ IF /\ r.status = 200
                       /\ session.current_index < Len(r.contacts)
                       /\ replied
                      THEN screen' = screen \cup
                             {<<u, session.session_id, session.current_index>>}
                      ELSE screen' = screen
  /\ callback' = NoCallback
  /\ UNCHANGED <<env, arg, ret, uploading, temp_files, active_reviews,
                 inflight, response, dispatched>>

\* handle_callback 204: the press is for a contact other than the current
Stale(session, idx) == idx # session.current_index

\* handle_callback 187-215: a press of a button carrying action_index.  A
\* press can arrive for any keyboard sent so far.  When query.answer()
\* raises at 196 the handler ends with nothing done.
HandleCallback(u, action, idx) ==
  /\ callback.pc = "idle"
  /\ \E b \in screen : b[1] = u /\ b[3] = idx
  /\ \E answer \in TelegramOutcomes :
     IF u \notin DOMAIN user_sessions \/ answer = "raises"
       THEN UNCHANGED botvars
     ELSE IF Stale(user_sessions[u], idx)
       THEN UNCHANGED botvars
     ELSE LET cb == [NoCallback EXCEPT !.user = u, !.action = action,
                                       !.contact_index = idx]
              post == <<user_sessions[u].session_id, idx>>
          IN IF action \in {"mailchimp", "both"}
               THEN /\ callback' = [cb EXCEPT !.pc = "post_mailchimp"]
                    /\ dispatched' = dispatched \cup {post}
                    /\ UNCHANGED <<user_sessions, screen>>
             ELSE IF action = "pipedrive"
               THEN /\ callback' = [cb EXCEPT !.pc = "post_pipedrive"]
                    /\ dispatched' = dispatched \cup {post}
                    /\ UNCHANGED <<user_sessions, screen>>
             ELSE FinishCallback(cb)
  /\ UNCHANGED <<env, arg, ret, uploading, temp_files, active_reviews,
                 inflight, response>>

\* add_contact_to_service 248-264: the API takes the driver's POST
BotReviewContact ==
  /\ callback.pc \in BotPosting
  /\ review_contact("bot", user_sessions[callback.user].session_id,
                    callback.contact_index, callback.pc = "post_mailchimp",
                    callback.pc = "post_pipedrive")

(***************************************************************************)
(* Specifications.                                                         *)
(***************************************************************************)
Next ==
  \/ \E file \in Files : UploadCsv(file)
  \/ \E i \in 1..MaxSessions : UploadResumes(i)
  \/ \E sid \in RequestIds : GetContacts(sid)
  \/ \E sid \in RequestIds, idx \in ReviewIndexes, mc \in BOOLEAN,
        pd \in BOOLEAN : ReviewContact(sid, idx, mc, pd)
  \/ \E ans \in RemoteAnswers : RemoteResponds(ans)
  \/ RemoteGoesSilent

\* the service and its direct clients
Spec == Init /\ [][Next]_vars

\* a remote service that has not gone silent answers in the end
LiveSpec == Spec /\ WF_vars(\E ans \in RemoteAnswers : RemoteResponds(ans))

BotNext ==
  \/ \E u \in Users, file \in Files : HandleDocument(u, file)
  \/ ShowContactForReview
  \/ \E u \in Users, action \in Actions, idx \in 0..MaxRows :
       HandleCallback(u, action, idx)
  \/ BotReviewContact
  \/ \E ans \in RemoteAnswers : RemoteResponds(ans)

\* the service driven by the Telegram driver
BotSpec == Init /\ [][BotNext]_vars

(***************************************************************************)
(* The functions of the validator applied on their own: Init draws the     *)
(* argument, an action applies the function.                               *)
(***************************************************************************)
\* all texts of at most n characters of a set
Texts(chars, n) == UNION {[1..k -> chars] : k \in 0..n}

\* LinkedIn cells: with or without a scheme, then letters, blanks and
\* question marks
UrlCells ==
  {Txt(scheme \o rest) :
     scheme \in {<<>>, <<"h", "t", "t", "p", ":", "/", "/">>},
     rest \in Texts({"a", " ", "?"}, MaxUrlLen)}

\* the columns parse_csv requires
Required == {"name", "email", LinkedInColumn}

\* a required cell of a raw row: the column is absent, the cell is empty
\* (NaN), the cell holds blanks (a blank and a no-break space), or it holds
\* a text that passes
CellKinds == {"absent", "empty", "blank", "text"}

PassingText(col) ==
  CASE col = "name" -> <<"A", "n", "n">>
    [] col = "email" -> <<"a", "@", "x", ".", "i", "o">>
    [] OTHER -> <<"l", "i", "n", "k", "e", "d", "i", "n", ".", "c", "o", "m",
                  "/", "a">>

RawRow(kinds) ==
  [col \in {c \in Required : kinds[c] # "absent"} |->
     CASE kinds[col] = "empty" -> NaN
       [] kinds[col] = "blank" -> Txt(<<" ", " ">>)
       [] OTHER -> Txt(PassingText(col))]

RawRows == {RawRow(kinds) : kinds \in [Required -> CellKinds]}

\* contacts parse_csv can return: a name of one, two or three tokens, with
\* and without first_name and last_name
PayloadContacts ==
  {[name |-> name, email |-> <<"a", "@", "x", ".", "i", "o">>,
    linkedin_url |-> <<"h", "t", "t", "p", "s", ":", "/", "/", "l", "i", "n",
                       "k", "e", "d", "i", "n", ".", "c", "o", "m", "/", "a">>,
    first_name |-> first_name, last_name |-> last_name] :
     name \in {<<"B", "o", "b">>, <<"A", "n", "n", " ", "L", "e", "e">>,
               <<"A", "n", "n", " ", " ", "L", "e", "e", " ", "R", "a", "y">>},
     first_name \in {None, Some(<<"B", "o">>)},
     last_name \in {None, Some(<<"R", "a", "y">>)}}

FunArgs ==
  {[fn |-> "clean_linkedin_url", val |-> cell] : cell \in UrlCells}
  \cup {[fn |-> "parse_csv", val |-> row] : row \in RawRows}
  \cup {[fn |-> "add_to_mailchimp", val |-> contact] :
          contact \in PayloadContacts}

FunInit ==
  /\ env \in EnvConfigs
  /\ active_reviews = EmptyRegistry
  /\ inflight = IdleReview
  /\ response = NoResponse
  /\ user_sessions = [u \in {} |-> 0]
  /\ callback = NoCallback
  /\ screen = {}
  /\ dispatched = {}
  /\ uploading = <<>>
  /\ temp_files = {}
  /\ arg \in FunArgs
  /\ ret = <<>>

\* clean_linkedin_url applied to the cell, then to what it returned
CleanLinkedinUrl ==
  /\ arg.fn = "clean_linkedin_url"
  /\ Len(ret) < 2
  /\ ret' = Append(ret, clean_linkedin_url(IF ret = <<>> THEN arg.val
                                                         ELSE Txt(ret[1])))
  /\ UNCHANGED <<svcvars, arg>>

\* the loop of parse_csv on a DataFrame of one row
ParseRow ==
  /\ arg.fn = "parse_csv"
  /\ ret = <<>>
  /\ ret' = <<parse_rows(<<arg.val>>)>>
  /\ UNCHANGED <<svcvars, arg>>

\* add_to_mailchimp up to its post: the merge_fields it sends, or None
\* when a credential is missing and it returns at line 133 with no body
\* built and nothing posted
MailchimpPayload ==
  /\ arg.fn = "add_to_mailchimp"
  /\ ret = <<>>
  /\ ret' = <<IF MailchimpConfigured(env) THEN Some(merge_fields(arg.val))
                                           ELSE None>>
  /\ UNCHANGED <<svcvars, arg>>

FunNext ==
  \/ CleanLinkedinUrl
  \/ ParseRow
  \/ MailchimpPayload

\* the pure functions of main.py
FunSpec == FunInit /\ [][FunNext]_vars

(***************************************************************************)
(* Properties of review_contact.  A step in which the API takes a review   *)
(* of a direct client leaves the request's session id and index in         *)
(* inflight' (the handler blocks in a post) or in response' (answered).    *)
(***************************************************************************)
\* C1: a review of an existing session with a contact index outside
\* [0, total), negative ones included, is answered at once with status 400,
\* invokes no enrollment gateway and leaves the recorded state unchanged.
C1_OutOfRangeRejected ==
  [][LET taken == IF inflight'.pc \in Posting THEN inflight' ELSE response'
         sid == taken.session_id
         idx == taken.contact_index
     IN (/\ inflight.pc = "idle"
         /\ inflight'.pc \in Posting \/ response'.op = "review"
         /\ \E mc \in BOOLEAN, pd \in BOOLEAN : ReviewContact(sid, idx, mc, pd)
         /\ sid \in DOMAIN active_reviews
         /\ (idx < 0 \/ idx >= Len(active_reviews[sid])))
        => /\ inflight' = IdleReview
           /\ response'.op = "review"
           /\ response'.status = 400
           /\ response'.invoked = {}
           /\ active_reviews' = active_reviews]_vars

\* C2: when a review is answered, the session's dispatch log holds, for the
\* reviewed index and every target the review requested, the outcome the
\* review returned, and every other entry of the log is as it was.
C2_DispatchLogRecordsOutcome ==
  [][(/\ inflight' = IdleReview
      /\ response'.op = "review"
      /\ response'.status = 200
      /\ \/ \E mc \in BOOLEAN, pd \in BOOLEAN :
              ReviewContact(response'.session_id, response'.contact_index,
                            mc, pd)
         \/ \E ans \in RemoteAnswers : RemoteResponds(ans))
     => LET before == dispatch_log(active_reviews, response'.session_id)
            after == dispatch_log(active_reviews', response'.session_id)
        IN \A i \in ReviewIndexes, t \in Targets :
             IF i = response'.contact_index /\ response'.results[t] # None
               THEN /\ <<i, t>> \in DOMAIN after
                    /\ after[<<i, t>>] = response'.results[t][1]
               ELSE /\ <<i, t>> \in DOMAIN after <=> <<i, t>> \in DOMAIN before
                    /\ <<i, t>> \in DOMAIN after
                         => after[<<i, t>>] = before[<<i, t>>]]_vars

(***************************************************************************)
(* Properties of upload_csv.                                               *)
(***************************************************************************)
\* C3: an upload of a CSV file in which no row survives validation fails,
\* returns no session id and leaves the session registry exactly as it was.
C3_EmptyUploadCreatesNoSession ==
  [][(inflight.pc = "idle" /\ response'.op = "upload")
     => \A file \in Files :
          (/\ UploadAnswered(file)
           /\ file.suffix = ".csv"
           /\ file.readable
           /\ \A i \in 1..Len(file.rows) : ~RowAccepted(file.rows[i]))
          => /\ response'.status # 200
             /\ response'.session_id = EmptyId
             /\ active_reviews' = active_reviews]_vars

\* C3 witness: an upload with no valid row has failed while a session
\* created earlier is in the registry.
C3_Witness ==
  /\ response.op = "upload"
  /\ response.detail = "No valid contacts found in CSV"
  /\ active_reviews # EmptyRegistry

\* C4: POST /upload-csv answers 400 for a file name that does not end in
\* .csv and for a readable file with no valid row, and answers 500 only
\* for a file that cannot be parsed.
C4_UploadStatusCodes ==
  [][(inflight.pc = "idle" /\ response'.op = "upload")
     => \A file \in Files :
          UploadAnswered(file)
          => /\ file.suffix # ".csv" => response'.status = 400
             /\ (/\ file.suffix = ".csv"
                 /\ file.readable
                 /\ \A i \in 1..Len(file.rows) : ~RowAccepted(file.rows[i]))
                => response'.status = 400
             /\ response'.status = 500
                => file.suffix = ".csv" /\ ~file.readable]_vars

(***************************************************************************)
(* Properties of the Telegram driver.                                      *)
(***************************************************************************)
\* C5: every press of an action button on the contact shown, once its API
\* calls are answered, advances the driver's index by one, and the driver
\* discards its session when the index reaches the total; as long as the
\* session is not discarded, the contact at its index is shown for review
\* once show_contact_for_review has run; for every number of contacts.
C5_PressAdvancesIndex ==
  [][\A u \in Users :
       /\ (/\ u \in DOMAIN user_sessions
           /\ \/ /\ callback.pc \in BotPosting
                 /\ callback.user = u
                 /\ callback'.pc \notin BotPosting
              \/ HandleCallback(u, "skip", user_sessions[u].current_index))
          => IF user_sessions[u].current_index + 1
                  < user_sessions[u].total_contacts
               THEN /\ u \in DOMAIN user_sessions'
                    /\ user_sessions'[u].current_index
                         = user_sessions[u].current_index + 1
               ELSE u \notin DOMAIN user_sessions'
       /\ (/\ callback.pc \in {"show", "show_next"}
           /\ callback.user = u
           /\ ShowContactForReview
           /\ u \in DOMAIN user_sessions')
          => <<u, user_sessions'[u].session_id,
               user_sessions'[u].current_index>> \in screen']_vars

(***************************************************************************)
(* Properties of the session registry.                                     *)
(***************************************************************************)
\* C6: a review with an unknown session id is answered 404 with no gateway
\* invoked, and so is a lookup; a session id returned by an upload is in
\* the registry and stays there, and for an id in the registry a lookup is
\* answered 200 and a review with an index in range is answered 200, at
\* once or when the remote service has answered.
C6_UnknownSession404KnownSessionAnswered ==
  [][LET taken == IF inflight'.pc \in Posting THEN inflight' ELSE response'
         sid == taken.session_id
         idx == taken.contact_index
     IN /\ (/\ inflight.pc = "idle"
            /\ inflight'.pc \in Posting \/ response'.op = "review"
            /\ \E mc \in BOOLEAN, pd \in BOOLEAN :
                 ReviewContact(sid, idx, mc, pd))
           => IF sid \notin DOMAIN active_reviews
                THEN /\ inflight' = IdleReview
                     /\ response'.status = 404
                     /\ response'.invoked = {}
                ELSE (idx >= 0 /\ idx < Len(active_reviews[sid]))
                     => \/ inflight'.pc \in Posting
                        \/ response'.status = 200
        /\ (\E ans \in RemoteAnswers : RemoteResponds(ans))
             => \/ inflight'.pc \in Posting
                \/ response'.op = "review" /\ response'.status = 200
        /\ (inflight.pc = "idle" /\ response'.op = "get")
             => \A s \in RequestIds :
                  GetContacts(s)
                  => response'.status
                       = (IF s \in DOMAIN active_reviews THEN 200 ELSE 404)
        /\ (/\ inflight.pc = "idle"
            /\ response'.op = "upload"
            /\ response'.status = 200
            /\ \E file \in Files : UploadAnswered(file))
             => response'.session_id \in DOMAIN active_reviews'
        /\ DOMAIN active_reviews \subseteq DOMAIN active_reviews']_vars

\* C6 witness: with a session in the registry, a review that named an
\* unknown session id has been answered 404.
C6_Witness ==
  /\ active_reviews # EmptyRegistry
  /\ response.op = "review"
  /\ response.status = 404
  /\ response.session_id \notin DOMAIN active_reviews

\* C7: no step removes a session from the registry or changes the contact
\* list of a session, in content or order.
C7_SessionsImmutable ==
  [][\A sid \in DOMAIN active_reviews :
       /\ sid \in DOMAIN active_reviews'
       /\ active_reviews'[sid] = active_reviews[sid]]_vars

\* C7 witness: the registry holds two sessions, one of them with several
\* contacts, and a review has been answered.
C7_Witness ==
  /\ Cardinality(DOMAIN active_reviews) >= 2
  /\ \E sid \in DOMAIN active_reviews : Len(active_reviews[sid]) > 1
  /\ response.op = "review"
  /\ response.status = 200

(***************************************************************************)
(* Properties of the enrollment gateways.                                  *)
(***************************************************************************)
\* C8: in a review of a contact of a session, a requested target one of
\* whose credentials is missing is never posted to a remote service and its
\* outcome is false; a review all of whose requested targets are
\* unconfigured is answered 200 at once, and a review answered after a
\* remote answer is answered 200 with false for the unconfigured target.
C8_UnconfiguredTargetFailsClosed ==
  [][LET Missing(t) ==
           IF t = "mailchimp"
             THEN \E v \in {"MAILCHIMP_API_KEY", "MAILCHIMP_LIST_ID",
                            "MAILCHIMP_SERVER_PREFIX"} : v \notin env
             ELSE \E v \in {"PIPEDRIVE_API_KEY", "PIPEDRIVE_DOMAIN"} :
                    v \notin env
         Requested(mc, pd) ==
           {t \in Targets : (t = "mailchimp" /\ mc) \/ (t = "pipedrive" /\ pd)}
         Closed(requested) ==
           \A t \in requested :
             Missing(t)
             => /\ t \notin inflight'.posted
                /\ inflight'.pc \in Posting
                     => inflight'.results[t] \in {None, Some(FALSE)}
                /\ inflight'.pc = "idle"
                     => /\ response'.op = "review"
                        /\ response'.status = 200
                        /\ response'.results[t] = Some(FALSE)
                        /\ t \notin response'.posted
         taken == IF inflight'.pc \in Posting THEN inflight' ELSE response'
         sid == taken.session_id
         idx == taken.contact_index
     IN /\ (/\ inflight.pc = "idle"
            /\ inflight'.pc \in Posting \/ response'.op = "review"
            /\ review_check(sid, idx, active_reviews).status = 200)
           => \A mc \in BOOLEAN, pd \in BOOLEAN :
                ReviewContact(sid, idx, mc, pd)
                => /\ Closed(Requested(mc, pd))
                   /\ (\A t \in Requested(mc, pd) : Missing(t))
                        => inflight'.pc = "idle"
        /\ (\E ans \in RemoteAnswers : RemoteResponds(ans))
             => Closed(Requested(inflight.add_to_mailchimp,
                                 inflight.add_to_pipedrive))]_vars

\* C8 witness: the spec's scenario 2, a review of both targets with the
\* mailing list unconfigured and the CRM answering 201.
C8_Witness ==
  /\ ~MailchimpConfigured(env)
  /\ response.op = "review"
  /\ response.status = 200
  /\ response.results.mailchimp = Some(FALSE)
  /\ response.results.pipedrive = Some(TRUE)
  /\ response.posted = {"pipedrive"}

\* C9: a review whose remote service never responds is still answered in
\* the end.
C9_SilentRemoteTimesOut ==
  inflight.silent ~> (inflight.pc = "idle" /\ response.op = "review")

\* C10: while a review waits for a remote service, the API can still take
\* and answer an upload, a lookup and a review of another session.
C10_PendingCallBlocksOnlyItsRequest ==
  inflight.pc \in Posting
  => /\ ENABLED (\E file \in Files : UploadCsv(file))
     /\ ENABLED (\E sid \in RequestIds : GetContacts(sid))
     /\ ENABLED (\E sid \in RequestIds \ {inflight.session_id},
                    idx \in ReviewIndexes, mc \in BOOLEAN, pd \in BOOLEAN :
                   ReviewContact(sid, idx, mc, pd))

(***************************************************************************)
(* Properties of ingestion.                                                *)
(***************************************************************************)
\* C11: an upload of a readable .csv file with N >= 1 valid rows is answered
\* 200 with a session id that was not in the registry; the registry then
\* holds under it the contacts of the N valid rows in row order; the answer
\* gives total_contacts = N and the first min(N, 5) of them in that order;
\* and a lookup of a session id answers the whole list stored under it.
C11_IngestStoresAllReturnsPreview ==
  [][/\ (inflight.pc = "idle" /\ response'.op = "upload")
        => \A file \in Files :
             LET valid == SelectSeq(file.rows, RowAccepted)
                 kept == [i \in 1..Len(valid) |-> RowContact(valid[i])]
                 N == Len(kept)
                 sid == response'.session_id
             IN (/\ UploadAnswered(file)
                 /\ file.suffix = ".csv"
                 /\ file.readable
                 /\ N >= 1)
                => /\ response'.status = 200
                   /\ sid \notin DOMAIN active_reviews
                   /\ sid \in DOMAIN active_reviews'
                   /\ active_reviews'[sid] = kept
                   /\ response'.total_contacts = N
                   /\ Len(response'.contacts) = (IF N < 5 THEN N ELSE 5)
                   /\ \A i \in 1..Len(response'.contacts) :
                        response'.contacts[i] = kept[i]
     /\ (inflight.pc = "idle" /\ response'.op = "get")
        => \A s \in DOMAIN active_reviews :
             GetContacts(s)
             => /\ response'.status = 200
                /\ response'.contacts = active_reviews[s]
                /\ response'.total_contacts = Len(active_reviews[s])]_vars

\* C11 witness: with a session in the registry, an upload of more than five
\* valid rows has been answered with a second session id, the total and a
\* preview of five.
C11_Witness ==
  /\ response.op = "upload"
  /\ response.status = 200
  /\ Cardinality(DOMAIN active_reviews) >= 2
  /\ response.total_contacts > PreviewSize
  /\ Len(response.contacts) = PreviewSize
  /\ Len(active_reviews[response.session_id]) = response.total_contacts

(***************************************************************************)
(* Properties of the validator.                                            *)
(***************************************************************************)
\* C12: clean_linkedin_url applied to its own result returns that result:
\* normalize(normalize(url)) = normalize(url) for every text url.
C12_NormalizeIdempotent ==
  (arg.fn = "clean_linkedin_url" /\ Len(ret) = 2) => ret[2] = ret[1]

\* C13: a raw row in which name, email or the LinkedIn column is missing
\* (the column is absent, or the cell is empty or empty after trim) gives no
\* contact.
C13_MissingFieldRejected ==
  (/\ arg.fn = "parse_csv"
   /\ ret # <<>>
   /\ \E col \in Required :
        \/ col \notin DOMAIN arg.val
        \/ IsNa(arg.val[col])
        \/ Strip(arg.val[col].s) = <<>>)
  => ret[1] = <<>>

\* C14: the linkedin_url of every contact of every session contains
\* linkedin.com, holds no '?', has no blank at either end and starts with
\* https://.
C14_StoredUrlNormalized ==
  \A sid \in DOMAIN active_reviews :
    \A i \in 1..Len(active_reviews[sid]) :
      LET url == active_reviews[sid][i].linkedin_url IN
      /\ Contains(url, <<"l", "i", "n", "k", "e", "d", "i", "n", ".", "c",
                         "o", "m">>)
      /\ \A k \in 1..Len(url) : url[k] # "?"
      /\ Strip(url) = url
      /\ StartsWith(url, <<"h", "t", "t", "p", "s", ":", "/", "/">>)

(***************************************************************************)
(* Properties of the dispatch of a review.                                 *)
(***************************************************************************)
\* C15: in a review of a contact of a session, only requested targets are
\* invoked and get a result; when the review is answered, results holds an
\* entry for exactly the requested targets and each of them was invoked;
\* and once the mailing-list target has failed, a requested CRM target is
\* invoked in the same call.
C15_TargetsDispatchedIndependently ==
  [][LET Requested(mc, pd) ==
           {t \in Targets : (t = "mailchimp" /\ mc) \/ (t = "pipedrive" /\ pd)}
         taken == IF inflight'.pc \in Posting THEN inflight' ELSE response'
         sid == taken.session_id
         idx == taken.contact_index
         Independent(requested) ==
           /\ taken.invoked \subseteq requested
           /\ \A t \in Targets : taken.results[t] # None => t \in requested
           /\ inflight'.pc = "idle"
                => /\ response'.op = "review"
                   /\ response'.status = 200
                   /\ response'.invoked = requested
                   /\ \A t \in requested : response'.results[t] # None
           /\ ("pipedrive" \in requested
                 /\ taken.results.mailchimp = Some(FALSE))
                => "pipedrive" \in taken.invoked
     IN /\ (/\ inflight.pc = "idle"
            /\ inflight'.pc \in Posting \/ response'.op = "review"
            /\ review_check(sid, idx, active_reviews).status = 200)
           => \A mc \in BOOLEAN, pd \in BOOLEAN :
                ReviewContact(sid, idx, mc, pd)
                => Independent(Requested(mc, pd))
        /\ (\E ans \in RemoteAnswers : RemoteResponds(ans))
             => Independent(Requested(inflight.add_to_mailchimp,
                                      inflight.add_to_pipedrive))]_vars

\* C15 witness: a review of both targets in which the mailing list was
\* posted and failed and the CRM was posted and succeeded.
C15_Witness ==
  /\ response.op = "review"
  /\ response.status = 200
  /\ response.posted = Targets
  /\ response.results.mailchimp = Some(FALSE)
  /\ response.results.pipedrive = Some(TRUE)

\* C16: the outcome of the CRM target is true exactly when the remote
\* service answers with status 201, whatever the body holds, and false for
\* every other status and for a fault; the review is answered either way.
C16_CrmTrueExactlyOn201 ==
  [][inflight.pc = "pipedrive_post"
     => \A ans \in RemoteAnswers :
          RemoteResponds(ans)
          => /\ response'.op = "review"
             /\ response'.status = 200
             /\ response'.results.pipedrive
                  = Some(~ans.fault /\ ans.status = 201)]_vars

\* C17: the LNAME the mailing-list adapter sends is the contact's last_name
\* when it has one, and otherwise the tokens of name after the first,
\* joined (empty for a name of one token).
C17_LastNameSentWhenPresent ==
  (arg.fn = "add_to_mailchimp" /\ ret # <<>> /\ ret[1] # None)
  => ret[1][1].LNAME = (IF arg.val.last_name # None
                          THEN arg.val.last_name[1]
                          ELSE JoinSpace(Tail(Tokens(arg.val.name))))

(***************************************************************************)
(* Properties of the button presses of the Telegram driver.                *)
(***************************************************************************)
\* C18: a press whose index differs from current_index posts no review; a
\* press that posts a review is for the current index of the session, for
\* which no press has posted a review before; and when a handler that
\* posted a review for an index ends, the session is discarded or its
\* current_index is past that index.
C18_PressDispatchesOncePerContact ==
  [][\A u \in Users :
       /\ \A action \in Actions, idx \in 0..MaxRows :
            (/\ callback.pc = "idle"
             /\ u \in DOMAIN user_sessions
             /\ HandleCallback(u, action, idx))
            => /\ idx # user_sessions[u].current_index
                    => callback'.pc \notin BotPosting
               /\ callback'.pc \in BotPosting
                    => /\ <<user_sessions[u].session_id, idx>>
                            \notin dispatched
                       /\ dispatched' =
                            dispatched
                              \cup {<<user_sessions[u].session_id, idx>>}
       /\ (/\ callback.pc \in BotPosting
           /\ callback.user = u
           /\ callback'.pc \notin BotPosting)
          => \/ u \notin DOMAIN user_sessions'
             \/ user_sessions'[u].current_index > callback.contact_index]_vars

\* C19: a press of a button that was displayed for a contact of a session
\* other than the user's present one posts no review and leaves the
\* present session and its index as they are.
C19_PressAppliesToDisplayedContact ==
  [][\A b \in screen, action \in Actions :
       (/\ callback.pc = "idle"
        /\ b[1] \in DOMAIN user_sessions
        /\ b[2] # user_sessions[b[1]].session_id
        /\ HandleCallback(b[1], action, b[3]))
       => /\ callback'.pc \notin BotPosting
          /\ user_sessions' = user_sessions]_vars

(***************************************************************************)
(* Properties of the temp file of upload_csv.                              *)
(***************************************************************************)
\* C20: when POST /upload-csv has answered, no temp file of the upload is on
\* disk, unless another upload of the same file still waits in file.read(),
\* and the disk holds no temp file it did not hold before, whether the
\* ingest succeeded, found no valid row or failed to parse.
C20_TempFileRemoved ==
  [][(inflight.pc = "idle" /\ response'.op = "upload")
     => \A file \in Files :
          UploadAnswered(file)
          => /\ file \in temp_files'
                  => \E i \in 1..Len(uploading') : uploading'[i] = file
             /\ temp_files' \subseteq temp_files]_vars

====
